---------------------------- MODULE Spec2Model ----------------------------
(***************************************************************************)
(* A model of zlig, a wheel build backend on top of Flit that compiles     *)
(* Zig extensions (src/zlig/__init__.py, src/zlig/_wheels.py).              *)
(*                                                                         *)
(* Strings are sequences of atoms.  The separators ".", "-" and "_" are    *)
(* atoms of their own; every other atom stands for a run of characters     *)
(* that holds no separator.                                                *)
(***************************************************************************)
EXTENDS Naturals, Sequences, FiniteSets, TLC

VARIABLES
    call,       \* pure functions: the function applied ("none" before the call)
    args,       \* pure functions: its inputs
    ret,        \* pure functions: its result
    pc,         \* build_wheel: the step it is at
    project,    \* pyproject.toml: [metadata, module, extensions]
    _platform,  \* the platform the build runs on
    cwd,        \* the source files of the working directory
    fs,         \* compiled artifacts and their copies: path -> file
    script,     \* build.zig: << >> when absent, else <<its text>>
    wheel_dir,  \* wheel_directory: the wheels in it, [name, origin]
    wheel_dir0, \* wheel_directory as build_wheel found it
    temp,       \* the mkstemp file: "none", "exists", "deleted" or "renamed"
    wb,         \* the WheelBuilder
    archive,    \* the entries written to the zip, in order
    discarded,  \* the names written to buffers that are thrown away
    offered,    \* the full paths passed to _add_file
    err,        \* the exception build_wheel raised, "none" if none
    trace,      \* the phases of the build that ran, [phase, ok]
    effects,    \* what the build did to the working directory
    copy_runs,  \* runs of _copy_artifacts since the compiled output changed
    copy_written \* the targets the latest run of _copy_artifacts wrote

fnvars == <<call, args, ret>>
buildvars == <<pc, project, _platform, cwd, fs, script, wheel_dir, wheel_dir0, temp, wb, archive,
               discarded, offered, err, trace, effects>>
copyvars == <<copy_runs, copy_written>>
vars == <<fnvars, buildvars, copyvars>>

---------------------------------------------------------------------------
(* Bounds of the model.                                                    *)

\* Longest extension name drawn, in atoms.
MaxNameLen == 5

---------------------------------------------------------------------------
(* Strings.                                                                *)

DOT == "."
DASH == "-"
UNDERSCORE == "_"

\* The atoms extension names are drawn from.
NameAtoms == {"a", DOT, UNDERSCORE}

RECURSIVE StringsUpTo(_, _)
StringsUpTo(atoms, n) ==
    IF n = 0 THEN {<< >>}
    ELSE LET shorter == StringsUpTo(atoms, n - 1)
         IN  shorter \cup {Append(s, c) : s \in shorter, c \in atoms}

\* str.replace(old, new) for a one-atom old.
replace(s, old, new) ==
    [i \in 1..Len(s) |-> IF s[i] = old THEN new ELSE s[i]]

\* str.count(sub) for a one-atom sub.
count(s, sub) == Cardinality({i \in 1..Len(s) : s[i] = sub})

\* The index of the first sub in s, 0 when there is none (str.find, 1-based).
find(s, sub) ==
    IF \E i \in 1..Len(s) : s[i] = sub
    THEN CHOOSE i \in 1..Len(s) : s[i] = sub /\ \A j \in 1..(i - 1) : s[j] # sub
    ELSE 0

\* The index of the last sub in s, 0 when there is none (str.rfind, 1-based).
rfind(s, sub) ==
    IF \E i \in 1..Len(s) : s[i] = sub
    THEN CHOOSE i \in 1..Len(s) : s[i] = sub /\ \A j \in (i + 1)..Len(s) : s[j] # sub
    ELSE 0

\* str.split(sep): every sep splits, so the parts hold no sep.
RECURSIVE split(_, _)
split(s, sep) ==
    LET i == find(s, sep)
    IN  IF i = 0 THEN <<s>>
        ELSE <<SubSeq(s, 1, i - 1)>> \o split(SubSeq(s, i + 1, Len(s)), sep)

\* str.split(sep, 1): the first sep splits, if there is one.
split1(s, sep) ==
    LET i == find(s, sep)
    IN  IF i = 0 THEN <<s>>
        ELSE <<SubSeq(s, 1, i - 1), SubSeq(s, i + 1, Len(s))>>

\* str.rsplit(sep, 1): the last sep splits, if there is one.
rsplit1(s, sep) ==
    LET i == rfind(s, sep)
    IN  IF i = 0 THEN <<s>>
        ELSE <<SubSeq(s, 1, i - 1), SubSeq(s, i + 1, Len(s))>>

\* sep.join(parts).
RECURSIVE join(_, _)
join(parts, sep) ==
    IF Len(parts) = 0 THEN << >>
    ELSE IF Len(parts) = 1 THEN parts[1]
    ELSE parts[1] \o <<sep>> \o join(Tail(parts), sep)

\* The decimal digits of a natural number, as str(n) gives them.
Digit(d) == <<"0", "1", "2", "3", "4", "5", "6", "7", "8", "9">>[d + 1]

RECURSIVE str(_)
str(n) == IF n < 10 THEN <<Digit(n)>> ELSE Append(str(n \div 10), Digit(n % 10))


---------------------------------------------------------------------------
(* Platforms: the interpreter and operating system the build runs on.      *)

ZIG_LIB_NAME_TEMPLATES(os_name, name) ==
    IF os_name = "nt" THEN name \o <<DOT, "dll">>
    ELSE <<"lib">> \o name \o <<DOT, "so">>

PosixPlatform ==
    [os_name |-> "posix",
     tag |-> [interpreter |-> <<"cp311">>, abi |-> <<"cp311">>,
              platform |-> <<"linux", UNDERSCORE, "x86", UNDERSCORE, "64">>],
     ext_suffix |-> <<DOT, "cpython", DASH, "311", DASH, "x86", UNDERSCORE, "64",
                      DASH, "linux", DASH, "gnu", DOT, "so">>]

NtPlatform ==
    [os_name |-> "nt",
     tag |-> [interpreter |-> <<"cp39">>, abi |-> <<"cp39">>,
              platform |-> <<"win", UNDERSCORE, "amd64">>],
     ext_suffix |-> <<DOT, "cp39", DASH, "win", UNDERSCORE, "amd64", DOT, "pyd">>]

Platforms == {PosixPlatform, NtPlatform}

\* str(tag) of packaging.tags.Tag: "interpreter-abi-platform".
tag_str(tag) == tag.interpreter \o <<DASH>> \o tag.abi \o <<DASH>> \o tag.platform

zig_lib_name_template(plat, name) ==
    ZIG_LIB_NAME_TEMPLATES(plat.os_name, name)

---------------------------------------------------------------------------
(* _Extension: a declared extension, [name, patterns].                     *)

\* pathlib.Path(*parts): a path is the sequence of its non-empty parts.
Path(parts) == SelectSeq(parts, LAMBDA c : c # << >>)

_Extension(name, patterns) == [name |-> name, patterns |-> patterns]

modname(ext) ==
    LET parts == rsplit1(ext.name, DOT) IN parts[Len(parts)]

directory_in_package(ext) ==
    LET parts == split(ext.name, DOT) IN Path(SubSeq(parts, 1, Len(parts) - 1))

varname(ext) ==
    LET prefix == replace(ext.name, DOT, UNDERSCORE)
        suffix == count(ext.name, DOT)
    IN  prefix \o <<UNDERSCORE>> \o str(suffix)

get_target_path(ext, plat) ==
    LET tag == plat.tag
        filename == modname(ext) \o <<DOT>> \o tag.interpreter \o <<DASH>>
                    \o tag.platform \o plat.ext_suffix
    IN  directory_in_package(ext) \o <<filename>>

\* The result of a call: a value returned, or an exception raised.
Returned(v) == [raised |-> "none", value |-> v]
Raised(exc) == [raised |-> exc, value |-> "none"]

\* _load_extension without the check of the root.
_load_extension_NoRootCheck(decl, module) ==
    LET parts == split1(decl.name, DOT)
    IN  IF Len(parts) # 2 THEN Raised("ValueError")
        ELSE Returned(_Extension(parts[2], decl.sources))

\* _load_extension(decl, module).  Unpacking a split that gave one part
\* raises ValueError.
_load_extension(decl, module) ==
    LET parts == split1(decl.name, DOT)
    IN  IF Len(parts) # 2 THEN Raised("ValueError")
        ELSE IF parts[1] # module.name THEN Raised("NotImplementedError")
        ELSE Returned(_Extension(parts[2], decl.sources))

---------------------------------------------------------------------------
(* WheelBuilder.wheel_filename.                                            *)

\* flit_core's WheelBuilder.wheel_filename, which super().wheel_filename
\* gives: "<name>-<version>-py3-none-any.whl" ("py2.py3" for a package that
\* supports Python 2); flit_core leaves no dash in name or version.
super_wheel_filename(self) ==
    LET pytag == IF self.metadata.supports_py2 THEN <<"py2", DOT, "py3">> ELSE <<"py3">>
    IN  self.metadata.name \o <<DASH>> \o self.metadata.version \o <<DASH>> \o pytag
        \o <<DASH, "none", DASH, "any", DOT, "whl">>

\* wheel_filename that gives the platform's tag to a package without extensions too.
wheel_filename_AlwaysPlatform(self) ==
    LET fields == split(super_wheel_filename(self), DASH)
        tag == self._platform.tag
    IN  join(SubSeq(fields, 1, Len(fields) - 3)
             \o <<tag.interpreter, tag.abi, tag.platform>>, DASH) \o <<DOT, "whl">>

\* WheelBuilder.wheel_filename.

wheel_filename(self) ==
    LET pure_name == super_wheel_filename(self)
        fields == split(pure_name, DASH)
        parts == SubSeq(fields, 1, Len(fields) - 3)
        tag == self._platform.tag
    IN  IF self._extensions = << >> THEN pure_name
        ELSE join(parts \o <<tag.interpreter, tag.abi, tag.platform>>, DASH)
             \o <<DOT, "whl">>

---------------------------------------------------------------------------
(* The working directory.  A path is the sequence of its parts.  The       *)
(* source tree is the set of the paths of its files; compiled artifacts    *)
(* and their copies in the package are files with data and a modification  *)
(* time, held in a map from the paths present to the files.                *)

INIT_PY == << <<"a">>, <<"__init__", DOT, "py">> >>
B_ZIG == << <<"a">>, <<"b", DOT, "zig">> >>
LINK_ZIG == << <<"a">>, <<"link", DOT, "zig">> >>
C_ZIG == << <<"src">>, <<"c", DOT, "zig">> >>
LICENSE == << <<"LICENSE">> >>

\* The source trees: the package's __init__.py and any of the other files.
Trees == {{INIT_PY} \cup t : t \in SUBSET {B_ZIG, LINK_ZIG, C_ZIG, LICENSE}}

\* a/link.zig is a symbolic link to src/c.zig; Path.resolve() follows it.
resolve(path) == IF path = LINK_ZIG THEN C_ZIG ELSE path

\* One part of a glob pattern against one part of a path: a leading "*"
\* matches any run of atoms.
match_part(pat, part) ==
    IF pat # << >> /\ pat[1] = "*"
    THEN /\ Len(part) >= Len(pat) - 1
         /\ SubSeq(part, Len(part) - Len(pat) + 2, Len(part)) = Tail(pat)
    ELSE pat = part

\* pathlib.Path.cwd().glob(pattern) over the files of the tree.
glob(pattern, files) ==
    {path \in files :
        /\ Len(path) = Len(pattern)
        /\ \A i \in 1..Len(path) : match_part(pattern[i], path[i])}

\* _Extension.iter_sources(): its consumer collects what it yields in a set.
iter_sources(ext, files) ==
    UNION {glob(ext.patterns[i], files) : i \in 1..Len(ext.patterns)}

\* Longest file data drawn, in bytes, and the latest modification time.
MaxFileLen == 1
MaxMtime == 2

RECURSIVE BytesUpTo(_)
BytesUpTo(n) ==
    IF n = 0 THEN {<< >>}
    ELSE LET shorter == BytesUpTo(n - 1)
         IN  shorter \cup {Append(d, b) : d \in shorter, b \in {0, 1}}

Files == [data : BytesUpTo(MaxFileLen), mtime : 1..MaxMtime]

\* os.stat's signature of a regular file, as filecmp._sig takes it.
_sig(file) == <<"S_IFREG", Len(file.data), file.mtime>>

\* filecmp.cmp(f1, f2), shallow by default: equal signatures are taken for
\* equal files, different sizes for different files, and only then are the
\* contents compared.
filecmp_cmp(f1, f2) ==
    IF _sig(f1) = _sig(f2) THEN TRUE
    ELSE IF _sig(f1)[2] # _sig(f2)[2] THEN FALSE
    ELSE f1.data = f2.data

compiled_path(self, ext) ==
    Path(<< <<"zig", DASH, "out">>, <<"lib">> >> \o directory_in_package(ext)
         \o <<zig_lib_name_template(self._platform, modname(ext))>>)

target_path(self, ext) == self.module.path \o get_target_path(ext, self._platform)

\* WheelBuilder._copy_artifacts from extension i on.  st is [fs, written,
\* raised]: the files, the targets written so far, and the exception that
\* ended the loop.  filecmp.cmp and shutil.copy2 raise FileNotFoundError
\* for a compiled artifact that is not there.
RECURSIVE _copy_artifacts_from(_, _, _)
_copy_artifacts_from(self, i, st) ==
    IF i > Len(self._extensions) THEN st
    ELSE LET ext == self._extensions[i]
             compiled == compiled_path(self, ext)
             target == target_path(self, ext)
         IN  IF compiled \notin DOMAIN st.fs
             THEN [st EXCEPT !.raised = "FileNotFoundError"]
             ELSE IF target \in DOMAIN st.fs
                     /\ filecmp_cmp(st.fs[compiled], st.fs[target])
             THEN _copy_artifacts_from(self, i + 1, st)
             ELSE _copy_artifacts_from(self, i + 1,
                      [st EXCEPT !.fs = (target :> st.fs[compiled]) @@ st.fs,
                                 !.written = Append(st.written, target)])

_copy_artifacts(self, files) ==
    _copy_artifacts_from(self, 1, [fs |-> files, written |-> << >>, raised |-> "none"])

---------------------------------------------------------------------------
(* The archive.                                                            *)

zlig_version == <<"__version__">>

WHEEL_TEMPLATE(version, tag) ==
    << <<"Wheel-Version: 1.0">>,
       <<"Generator: zlig ">> \o version,
       <<"Root-Is-Purelib: false">>,
       <<"Tag: ">> \o tag >>

\* What flit_core's _write_wheel_file writes.
flit_wheel_file(supports_py2) ==
    << <<"Wheel-Version: 1.0">>,
       <<"Generator: flit">>,
       <<"Root-Is-Purelib: true">> >>
    \o (IF supports_py2 THEN << <<"Tag: ">> \o <<"py2", DASH, "none", DASH, "any">> >>
        ELSE << >>)
    \o << <<"Tag: ">> \o <<"py3", DASH, "none", DASH, "any">> >>

\* The zip as a build sees it: [archive, discarded, offered].
ZipState(a, d, o) == [archive |-> a, discarded |-> d, offered |-> o]

dist_info_name(metadata) ==
    metadata.name \o <<DASH>> \o metadata.version \o <<DOT, "dist-info">>

wheel_relname(self) == <<self.dist_info, <<"WHEEL">> >>

\* flit_core's WheelBuilder._add_file: the file goes into the zip.
super_add_file(full_path, rel_path, st) ==
    [st EXCEPT !.archive = Append(@, [name |-> rel_path, kind |-> "file", content |-> full_path])]

\* _add_file that adds every file.
_add_file_NoFilter(self, full_path, rel_path, st) ==
    super_add_file(full_path, rel_path, [st EXCEPT !.offered = @ \cup {full_path}])

\* WheelBuilder._add_file.
_add_file(self, full_path, rel_path, st) ==
    LET seen == [st EXCEPT !.offered = @ \cup {full_path}]
    IN  IF resolve(full_path) \in self._extension_sources THEN seen
        ELSE super_add_file(full_path, rel_path, seen)

\* flit_core's WheelBuilder._write_to_zip: what the body wrote goes into the zip.
super_write_to_zip(relname, content, st) ==
    [st EXCEPT !.archive = Append(@, [name |-> relname, kind |-> "text", content |-> content])]

\* _write_to_zip that lets the WHEEL file of flit_core through.
_write_to_zip_NoIgnore(self, relname, ignore_wheel, content, st) ==
    super_write_to_zip(relname, content, st)

\* WheelBuilder._write_to_zip, with the content its body writes.
_write_to_zip(self, relname, ignore_wheel, content, st) ==
    IF ignore_wheel /\ relname = wheel_relname(self)
    THEN [st EXCEPT !.discarded = Append(@, relname)]
    ELSE super_write_to_zip(relname, content, st)

\* WheelBuilder._write_wheel.
_write_wheel(self, st) ==
    LET name == wheel_relname(self)
        content == WHEEL_TEMPLATE(zlig_version, tag_str(self._platform.tag))
    IN  _write_to_zip(self, name, FALSE, content, st)

\* A set as a sequence, in some fixed order (the order files are walked in).
RECURSIVE SetToSeq(_)
SetToSeq(S) ==
    IF S = {} THEN << >>
    ELSE LET x == CHOOSE y \in S : TRUE IN <<x>> \o SetToSeq(S \ {x})

RECURSIVE add_files(_, _, _, _)
add_files(self, paths, rel, st) ==
    IF paths = << >> THEN st
    ELSE add_files(self, Tail(paths), rel,
                   _add_file(self, Head(paths), rel \o Head(paths), st))

\* flit_core's Module.iter_files(): the files under the package directory.
iter_files(module, files) ==
    {path \in files : /\ Len(path) > Len(module.path)
                      /\ SubSeq(path, 1, Len(module.path)) = module.path}

\* flit_core's WheelBuilder.copy_module: every file of the package is passed
\* to self._add_file under its path relative to the source directory.
super_copy_module(self, files, st) ==
    add_files(self, SetToSeq(iter_files(self.module, files)), << >>, st)

\* flit_core's WheelBuilder.write_metadata: the license files of the project
\* directory go through self._add_file, WHEEL and METADATA through
\* self._write_to_zip.
super_write_metadata(self, files, st) ==
    LET licenses == files \cap {LICENSE}
        st1 == add_files(self, SetToSeq(licenses), <<self.dist_info>>, st)
        st2 == _write_to_zip(self, <<self.dist_info, <<"WHEEL">> >>, TRUE,
                             flit_wheel_file(self.metadata.supports_py2), st1)
    IN  _write_to_zip(self, <<self.dist_info, <<"METADATA">> >>, TRUE,
                      <<self.metadata.name, self.metadata.version>>, st2)

\* WheelBuilder.write_metadata.
write_metadata(self, files, st) == _write_wheel(self, super_write_metadata(self, files, st))

---------------------------------------------------------------------------
(* Projects: what pyproject.toml declares.                                 *)

ZIG_IN_PACKAGE == << <<"a">>, <<"*", DOT, "zig">> >>
ZIG_IN_SRC == << <<"src">>, <<"*", DOT, "zig">> >>

Decl(name, sources) == [name |-> name, sources |-> sources]

D_b == Decl(<<"a", DOT, "b">>, <<ZIG_IN_PACKAGE>>)
D_b_c == Decl(<<"a", DOT, "b", DOT, "c">>, <<ZIG_IN_SRC, ZIG_IN_SRC>>)
D_x_b == Decl(<<"x", DOT, "b">>, <<ZIG_IN_PACKAGE>>)
D_a == Decl(<<"a">>, <<ZIG_IN_SRC>>)

ExtensionLists ==
    {<< >>, <<D_b>>, <<D_b_c>>, <<D_b, D_b_c>>, <<D_x_b>>, <<D_b, D_x_b>>, <<D_a>>}

TheModule == [name |-> <<"a">>, path |-> << <<"a">> >>]

Metadatas ==
    [name : {<<"a">>}, version : {<<"1", DOT, "0">>}, supports_py2 : {FALSE}]

Projects == [metadata : Metadatas, module : {TheModule}, extensions : ExtensionLists]

\* The builder before from_pyproject_toml has made one.
NoBuilder ==
    [metadata |-> [name |-> << >>, version |-> << >>, supports_py2 |-> FALSE],
     module |-> [name |-> << >>, path |-> << >>], dist_info |-> << >>,
     _extensions |-> << >>, _extension_sources |-> {}, _platform |-> PosixPlatform]

\* The extensions of the declarations, loaded in order; the first exception
\* ends the loading.
RECURSIVE load_extensions(_, _, _)
load_extensions(decls, module, loaded) ==
    IF decls = << >> THEN Returned(loaded)
    ELSE LET r == _load_extension(Head(decls), module)
         IN  IF r.raised # "none" THEN r
             ELSE load_extensions(Tail(decls), module, Append(loaded, r.value))

\* WheelBuilder.from_pyproject_toml, once flit_core has read the project.
from_pyproject_toml(proj, plat, files) ==
    LET exts == load_extensions(proj.extensions, proj.module, << >>)
    IN  IF exts.raised # "none" THEN exts
        ELSE Returned(
            [metadata |-> proj.metadata, module |-> proj.module,
             dist_info |-> dist_info_name(proj.metadata),
             _extensions |-> exts.value,
             _extension_sources |->
                 {resolve(source) :
                     source \in UNION {iter_sources(exts.value[i], files) :
                                          i \in 1..Len(exts.value)}},
             _platform |-> plat])

\* _Platform.python_lib_name.
python_lib_name(plat) == IF plat.os_name # "nt" THEN << >> ELSE <<"python39">>

\* The text _generate_build_zig renders: what the template is given.
render(self) ==
    [extensions |-> self._extensions, pythonlib |-> python_lib_name(self._platform)]

\* A build.zig left by something else.
StaleScript == [extensions |-> << >>, pythonlib |-> <<"stale">>]

---------------------------------------------------------------------------
(* build_wheel, step by step.                                              *)

IdleFunctions == call = "none" /\ args = << >> /\ ret = << >>
IdleCopy == copy_runs = 0 /\ copy_written = << >>

\* The files an earlier build may have left at the targets of the project.
TargetsOf(proj, plat, files) ==
    LET r == from_pyproject_toml(proj, plat, files)
    IN  IF r.raised # "none" THEN {}
        ELSE {target_path(r.value, r.value._extensions[i]) :
                 i \in 1..Len(r.value._extensions)}

ScriptsOf(proj, plat, files) ==
    LET r == from_pyproject_toml(proj, plat, files)
    IN  {<< >>, <<StaleScript>>}
        \cup (IF r.raised # "none" THEN {} ELSE {<<render(r.value)>>})

\* The names a wheel of the project can have.
WheelNamesOf(proj, plat) ==
    LET b == [NoBuilder EXCEPT !.metadata = proj.metadata, !._platform = plat]
    IN  {wheel_filename(b), wheel_filename([b EXCEPT !._extensions = <<D_b>>])}

Init ==
    /\ IdleFunctions
    /\ IdleCopy
    /\ pc = "start"
    /\ project \in Projects
    /\ _platform \in Platforms
    /\ cwd \in Trees
    /\ \E old \in {{}} \cup {{f} : f \in Files} :
           fs = [p \in {q \in TargetsOf(project, _platform, cwd) : old # {}}
                    |-> CHOOSE f \in old : TRUE]
    /\ script \in ScriptsOf(project, _platform, cwd)
    /\ wheel_dir \in {{}, {[name |-> n, origin |-> "old"] :
                              n \in WheelNamesOf(project, _platform)}}
    /\ wheel_dir0 = wheel_dir
    /\ temp = "none"
    /\ wb = NoBuilder
    /\ archive = << >>
    /\ discarded = << >>
    /\ offered = {}
    /\ err = "none"
    /\ trace = << >>
    /\ effects = {}

Phase(name, ok) == [phase |-> name, ok |-> ok]

\* The handler without os.unlink(temp).
HandleException_NoUnlink(exc) ==
    /\ temp' = temp
    /\ err' = exc
    /\ pc' = "raised"

\* except Exception: os.unlink(temp); raise
HandleException(exc) ==
    /\ temp' = "deleted"
    /\ err' = exc
    /\ pc' = "raised"

\* fd, temp = tempfile.mkstemp(suffix=".whl", dir=wheel_directory)
Mkstemp ==
    /\ pc = "start"
    /\ temp' = "exists"
    /\ pc' = "load"
    /\ UNCHANGED <<project, _platform, cwd, fs, script, wheel_dir, wheel_dir0, wb, archive,
                   discarded, offered, err, trace, effects, fnvars, copyvars>>

\* wb = WheelBuilder.from_pyproject_toml(conf, f); flit_core may reject the
\* project file before the extensions are loaded.
FromPyprojectToml ==
    /\ pc = "load"
    /\ \/ /\ HandleException("ConfigError")
          /\ UNCHANGED wb
       \/ LET r == from_pyproject_toml(project, _platform, cwd)
          IN  IF r.raised # "none"
              THEN HandleException(r.raised) /\ UNCHANGED wb
              ELSE wb' = r.value /\ pc' = "generate" /\ UNCHANGED <<temp, err>>
    /\ UNCHANGED <<project, _platform, cwd, fs, script, wheel_dir, wheel_dir0, archive,
                   discarded, offered, trace, effects, fnvars, copyvars>>

\* self._generate_build_zig(): _get_config_var raises NotImplementedError
\* where the interpreter has no INCLUDEPY, and writing build.zig may fail.
GenerateBuildZig ==
    /\ pc = "generate"
    /\ \/ /\ \E exc \in {"NotImplementedError", "OSError"} : HandleException(exc)
          /\ trace' = Append(trace, Phase("generate", FALSE))
          /\ UNCHANGED <<script, effects>>
       \/ /\ IF script = <<render(wb)>>
             THEN UNCHANGED <<script, effects>>
             ELSE /\ script' = <<render(wb)>>
                  /\ effects' = effects \cup {"build.zig written"}
          /\ trace' = Append(trace, Phase("generate", TRUE))
          /\ pc' = "zig"
          /\ UNCHANGED <<temp, err>>
    /\ UNCHANGED <<project, _platform, cwd, fs, wheel_dir, wheel_dir0, wb, archive,
                   discarded, offered, fnvars, copyvars>>

\* What a run of zig build that exits with 0 leaves in zig-out: the compiled
\* artifact of every extension, or nothing where build.zig installs none.
ZigOutputs(self) ==
    {[p \in {compiled_path(self, self._extensions[i]) : i \in 1..Len(self._extensions)}
         |-> f] : f \in Files}
    \cup {<< >>}

\* _run_zig_build that does not check the exit status.
RunZigBuild_NoCheck ==
    /\ pc = "zig"
    /\ effects' = effects \cup {"subprocess run"}
    /\ \E status \in {0, 2} :
          /\ \E out \in ZigOutputs(wb) : fs' = out @@ fs
          /\ trace' = Append(trace, Phase("zig", status = 0))
          /\ pc' = "copy_artifacts"
          /\ UNCHANGED <<temp, err>>
    /\ UNCHANGED <<project, _platform, cwd, script, wheel_dir, wheel_dir0, wb, archive,
                   discarded, offered, fnvars, copyvars>>

\* self._run_zig_build(): subprocess.run(args, check=True).
RunZigBuild ==
    /\ pc = "zig"
    /\ effects' = effects \cup {"subprocess run"}
    /\ \E status \in {0, 2} :
          IF status # 0
          THEN /\ HandleException("CalledProcessError")
               /\ trace' = Append(trace, Phase("zig", FALSE))
               /\ UNCHANGED fs
          ELSE /\ \E out \in ZigOutputs(wb) : fs' = out @@ fs
               /\ trace' = Append(trace, Phase("zig", TRUE))
               /\ pc' = "copy_artifacts"
               /\ UNCHANGED <<temp, err>>
    /\ UNCHANGED <<project, _platform, cwd, script, wheel_dir, wheel_dir0, wb, archive,
                   discarded, offered, fnvars, copyvars>>

\* self._copy_artifacts()
CopyArtifacts ==
    /\ pc = "copy_artifacts"
    /\ LET r == _copy_artifacts(wb, fs)
       IN  /\ fs' = r.fs
           /\ effects' = effects \cup (IF r.written # << >>
                                       THEN {"artifact copied"} ELSE {})
           /\ IF r.raised # "none"
              THEN /\ HandleException(r.raised)
                   /\ trace' = Append(trace, Phase("copy_artifacts", FALSE))
              ELSE /\ trace' = Append(trace, Phase("copy_artifacts", TRUE))
                   /\ pc' = "copy_module"
                   /\ UNCHANGED <<temp, err>>
    /\ UNCHANGED <<project, _platform, cwd, script, wheel_dir, wheel_dir0, wb, archive,
                   discarded, offered, fnvars, copyvars>>

\* super().copy_module(); reading a file or writing the zip may fail.
CopyModule ==
    /\ pc = "copy_module"
    /\ \/ /\ HandleException("OSError")
          /\ trace' = Append(trace, Phase("copy_module", FALSE))
          /\ UNCHANGED <<archive, discarded, offered, effects>>
       \/ LET st == super_copy_module(wb, cwd \cup DOMAIN fs,
                                      ZipState(archive, discarded, offered))
          IN  /\ archive' = st.archive
              /\ discarded' = st.discarded
              /\ offered' = st.offered
              /\ effects' = effects \cup {"package files copied"}
              /\ trace' = Append(trace, Phase("copy_module", TRUE))
              /\ pc' = "write_metadata"
              /\ UNCHANGED <<temp, err>>
    /\ UNCHANGED <<project, _platform, cwd, fs, script, wheel_dir, wheel_dir0, wb,
                   fnvars, copyvars>>

\* self.write_metadata(), which flit_core's build() calls next.
WriteMetadata ==
    /\ pc = "write_metadata"
    /\ LET st == write_metadata(wb, cwd \cup DOMAIN fs,
                                ZipState(archive, discarded, offered))
       IN  /\ archive' = st.archive
           /\ discarded' = st.discarded
           /\ offered' = st.offered
    /\ pc' = "write_record"
    /\ UNCHANGED <<project, _platform, cwd, fs, script, wheel_dir, wheel_dir0, temp, wb, err,
                   trace, effects, fnvars, copyvars>>

\* flit_core's write_record(), which ends build(): RECORD lists the entries.
WriteRecord ==
    /\ pc = "write_record"
    /\ archive' = Append(archive,
           [name |-> <<wb.dist_info, <<"RECORD">> >>, kind |-> "text",
            content |-> [i \in 1..Len(archive) |-> archive[i].name]])
    /\ pc' = "replace"
    /\ UNCHANGED <<project, _platform, cwd, fs, script, wheel_dir, wheel_dir0, temp, wb,
                   discarded, offered, err, trace, effects, fnvars, copyvars>>

\* os.replace(temp, wheel_path); return wheel_path.name
Replace ==
    /\ pc = "replace"
    /\ \/ /\ HandleException("OSError")
          /\ UNCHANGED wheel_dir
       \/ /\ wheel_dir' = {w \in wheel_dir : w.name # wheel_filename(wb)}
                          \cup {[name |-> wheel_filename(wb), origin |-> "this"]}
          /\ temp' = "renamed"
          /\ pc' = "done"
          /\ UNCHANGED err
    /\ UNCHANGED <<project, _platform, cwd, fs, script, wheel_dir0, wb, archive,
                   discarded, offered, trace, effects, fnvars, copyvars>>

Next ==
    \/ Mkstemp
    \/ FromPyprojectToml
    \/ GenerateBuildZig
    \/ RunZigBuild
    \/ CopyArtifacts
    \/ CopyModule
    \/ WriteMetadata
    \/ WriteRecord
    \/ Replace

Spec == Init /\ [][Next]_vars

---------------------------------------------------------------------------
(* The functions of _Extension, _load_extension and wheel_filename on      *)
(* bounded inputs: Init draws the inputs, an action applies the function.  *)

Names == StringsUpTo(NameAtoms, MaxNameLen)

\* The names that are dotted identifiers: no part is empty.
DottedNames ==
    {n \in Names : \A i \in 1..Len(split(n, DOT)) : split(n, DOT)[i] # << >>}

ModuleNames == {<<"a">>, <<"a", UNDERSCORE, "a">>}

DistNames == {<<"a">>, <<"a", UNDERSCORE, "b">>}
Versions == {<<"1", DOT, "0">>, <<"0", DOT, "1", DOT, "dev0">>}

IdleBuild ==
    /\ pc = "idle"
    /\ project = [metadata |-> NoBuilder.metadata, module |-> NoBuilder.module,
                  extensions |-> << >>]
    /\ _platform = PosixPlatform
    /\ cwd = {}
    /\ fs = << >>
    /\ script = << >>
    /\ wheel_dir = {}
    /\ wheel_dir0 = {}
    /\ temp = "none"
    /\ wb = NoBuilder
    /\ archive = << >>
    /\ discarded = << >>
    /\ offered = {}
    /\ err = "none"
    /\ trace = << >>
    /\ effects = {}

InitExt ==
    /\ IdleBuild
    /\ IdleCopy
    /\ ret = << >>
    /\ \/ /\ call = "varname"
          /\ args \in DottedNames \X DottedNames
       \/ /\ call = "_load_extension"
          /\ args \in [decl : {Decl(n, <<ZIG_IN_SRC>>) : n \in DottedNames},
                       module : {[name |-> m, path |-> <<m>>] : m \in ModuleNames}]
       \/ /\ call = "wheel_filename"
          /\ args \in {[NoBuilder EXCEPT !.metadata = m, !._extensions = e,
                                         !._platform = p] :
                          m \in [name : DistNames, version : Versions,
                                 supports_py2 : BOOLEAN],
                          e \in {<< >>, <<_Extension(<<"b">>, << >>)>>,
                                 <<_Extension(<<"b">>, << >>),
                                   _Extension(<<"c", DOT, "d">>, << >>)>>},
                          p \in Platforms}

\* _Extension(name, ...).varname, for two names.
ApplyVarname ==
    /\ call = "varname"
    /\ ret = << >>
    /\ ret' = <<varname(_Extension(args[1], << >>)), varname(_Extension(args[2], << >>))>>
    /\ UNCHANGED <<call, args, buildvars, copyvars>>

\* _load_extension(decl, module), and the varname of what it returns.
ApplyLoadExtension ==
    /\ call = "_load_extension"
    /\ ret = << >>
    /\ LET r == _load_extension(args.decl, args.module)
       IN  ret' = <<r, IF r.raised = "none" THEN varname(r.value) ELSE << >> >>
    /\ UNCHANGED <<call, args, buildvars, copyvars>>

\* WheelBuilder.wheel_filename.
ApplyWheelFilename ==
    /\ call = "wheel_filename"
    /\ ret = << >>
    /\ ret' = <<wheel_filename(args)>>
    /\ UNCHANGED <<call, args, buildvars, copyvars>>

NextExt == ApplyVarname \/ ApplyLoadExtension \/ ApplyWheelFilename

SpecExt == InitExt /\ [][NextExt]_vars

---------------------------------------------------------------------------
(* _copy_artifacts run again and again in one working directory, with zig  *)
(* rebuilding in between.                                                  *)

\* The runs of _copy_artifacts counted, at most.
MaxRuns == 2

\* The paths _copy_artifacts reads and writes.
ArtifactPaths(self) ==
    UNION {{compiled_path(self, self._extensions[i]),
            target_path(self, self._extensions[i])} : i \in 1..Len(self._extensions)}

PartialMaps(paths, values) ==
    UNION {[d -> values] : d \in SUBSET paths}

InitCopy ==
    /\ IdleFunctions
    /\ pc = "copy"
    /\ project \in {p \in Projects : p.extensions \in {<<D_b>>, <<D_b, D_b_c>>}}
    /\ _platform \in Platforms
    /\ cwd = {INIT_PY}
    /\ wb = from_pyproject_toml(project, _platform, cwd).value
    /\ fs \in PartialMaps(ArtifactPaths(wb), Files)
    /\ script = << >>
    /\ wheel_dir = {}
    /\ wheel_dir0 = {}
    /\ temp = "none"
    /\ archive = << >>
    /\ discarded = << >>
    /\ offered = {}
    /\ err = "none"
    /\ trace = << >>
    /\ effects = {}
    /\ copy_runs = 0
    /\ copy_written = << >>

\* One run of self._copy_artifacts(), to its return or its exception.
RunCopyArtifacts ==
    /\ pc = "copy"
    /\ LET r == _copy_artifacts(wb, fs)
       IN  /\ fs' = r.fs
           /\ copy_written' = r.written
           /\ copy_runs' = IF r.raised # "none" THEN 0
                           ELSE IF copy_runs < MaxRuns THEN copy_runs + 1
                           ELSE copy_runs
    /\ UNCHANGED <<pc, project, _platform, cwd, script, wheel_dir, wheel_dir0, temp, wb, archive,
                   discarded, offered, err, trace, effects, fnvars>>

\* zig build compiles an extension anew: its compiled artifact changes.
ZigRebuild ==
    /\ pc = "copy"
    /\ \E i \in 1..Len(wb._extensions), f \in Files :
          LET compiled == compiled_path(wb, wb._extensions[i])
          IN  /\ IF compiled \in DOMAIN fs THEN fs[compiled] # f ELSE TRUE
              /\ fs' = (compiled :> f) @@ fs
    /\ copy_runs' = 0
    /\ UNCHANGED <<pc, project, _platform, cwd, script, wheel_dir, wheel_dir0, temp, wb, archive,
                   discarded, offered, err, trace, effects, fnvars, copy_written>>

NextCopy == RunCopyArtifacts \/ ZigRebuild

SpecCopy == InitCopy /\ [][NextCopy]_vars

---------------------------------------------------------------------------
(* The claims.                                                             *)

\* The exceptions a phase of the build fails with.
PhaseErrors(phase) ==
    IF phase = "generate" THEN {"NotImplementedError", "OSError"}
    ELSE IF phase = "zig" THEN {"CalledProcessError"}
    ELSE IF phase = "copy_artifacts" THEN {"FileNotFoundError"}
    ELSE {"OSError"}

\* C1: when a step of build_wheel after mkstemp raises, the temporary file is
\* deleted, the error of that step is the one the caller gets, and the wheel
\* directory holds what it held before the build.
C1_CleanupOnError ==
    pc = "raised" =>
        /\ temp = "deleted"
        /\ wheel_dir = wheel_dir0
        /\ \A w \in wheel_dir : w.origin = "old"
        /\ IF trace # << >> /\ ~trace[Len(trace)].ok
           THEN err \in PhaseErrors(trace[Len(trace)].phase)
           ELSE IF trace = << >>
           THEN err \in {"ConfigError", from_pyproject_toml(project, _platform, cwd).raised}
                /\ err # "none"
           ELSE err = "OSError"

\* C1's case: zig build exits with 2 in a directory that holds an older wheel.
C1_Witness ==
    /\ pc = "raised"
    /\ err = "CalledProcessError"
    /\ wheel_dir # {}
    /\ temp = "deleted"

\* The name is not the module's name followed by a dot and more.
NotNamespaced(name, module_name) ==
    ~(/\ Len(name) > Len(module_name)
      /\ SubSeq(name, 1, Len(module_name) + 1) = module_name \o <<DOT>>)

FirstNotNamespaced ==
    CHOOSE i \in 1..Len(project.extensions) :
        /\ NotNamespaced(project.extensions[i].name, project.module.name)
        /\ \A j \in 1..(i - 1) :
              ~NotNamespaced(project.extensions[j].name, project.module.name)

\* C3: with a declared extension whose name is not under the module's name the
\* build never gets past the loading of the project, it ends with the error of
\* the loader (NotImplementedError, or ValueError for a name without a dot) or
\* of flit_core, and it writes no build script, runs no subprocess and copies
\* no artifact.
C3_NotNamespacedAborts ==
    (\E i \in 1..Len(project.extensions) :
        NotNamespaced(project.extensions[i].name, project.module.name))
    => /\ pc \in {"start", "load", "raised"}
       /\ effects = {}
       /\ trace = << >>
       /\ script \in ScriptsOf(project, _platform, cwd)
       /\ pc = "raised" =>
            err \in {"ConfigError",
                     IF count(project.extensions[FirstNotNamespaced].name, DOT) = 0
                     THEN "ValueError" ELSE "NotImplementedError"}

\* C3's case: the second of two declarations is x.b in package a.
C3_Witness ==
    /\ pc = "raised"
    /\ err = "NotImplementedError"
    /\ project.extensions = <<D_b, D_x_b>>
    /\ temp = "deleted"

\* The resolved paths of the files the declared source patterns match.
ExtensionSourcePaths ==
    {resolve(p) : p \in {q \in cwd :
        \E i \in 1..Len(project.extensions) :
            \E j \in 1..Len(project.extensions[i].sources) :
                q \in glob(project.extensions[i].sources[j], cwd)}}

AddedFiles == {archive[i].content : i \in {j \in 1..Len(archive) : archive[j].kind = "file"}}

\* C5: a file passed to _add_file is in the archive exactly when its resolved
\* path is not the resolved path of a file a source pattern matched, so the
\* archive holds no extension source.
C5_SourcesNotPackaged ==
    /\ \A p \in offered : (p \in AddedFiles) <=> (resolve(p) \notin ExtensionSourcePaths)
    /\ \A p \in AddedFiles : resolve(p) \notin ExtensionSourcePaths

\* C5's case: a finished build that was offered a source, its symbolic link and
\* a file that is no source.
C5_Witness ==
    /\ pc = "done"
    /\ {B_ZIG, LINK_ZIG, INIT_PY} \subseteq offered
    /\ LINK_ZIG \notin AddedFiles
    /\ B_ZIG \in AddedFiles
    /\ INIT_PY \in AddedFiles

WheelName == <<dist_info_name(project.metadata), <<"WHEEL">> >>

WheelEntries == {i \in 1..Len(archive) : archive[i].name = WheelName}

\* C6: the archive never holds two WHEEL entries nor the one flit_core writes,
\* which goes to a discarded buffer; a completed build holds one, of the four
\* lines with zlig's version and the platform's tag.
C6_OneWheelFile ==
    /\ Cardinality(WheelEntries) <= 1
    /\ \A i \in WheelEntries :
          archive[i].content =
              << <<"Wheel-Version: 1.0">>,
                 <<"Generator: zlig ">> \o zlig_version,
                 <<"Root-Is-Purelib: false">>,
                 <<"Tag: ">> \o _platform.tag.interpreter \o <<DASH>>
                     \o _platform.tag.abi \o <<DASH>> \o _platform.tag.platform >>
    /\ pc \in {"write_record", "replace", "done"} =>
          /\ Cardinality(WheelEntries) = 1
          /\ discarded = <<WheelName>>
    /\ pc \in {"start", "load", "generate", "zig", "copy_artifacts", "copy_module",
               "write_metadata"} => discarded = << >>

\* C6's case: a completed build.
C6_Witness ==
    /\ pc = "done"
    /\ Len(archive) >= 3
    /\ WheelEntries # {}

PhaseOrder == <<"generate", "zig", "copy_artifacts", "copy_module">>

\* C7: the phases run in the order generate, zig, copy artifacts, generic copy,
\* each after the one before it succeeded; after zig build fails no artifact
\* and no package file is copied.
C7_PhaseOrder ==
    /\ Len(trace) <= Len(PhaseOrder)
    /\ \A i \in 1..Len(trace) :
          /\ trace[i].phase = PhaseOrder[i]
          /\ i < Len(trace) => trace[i].ok
    /\ (\E i \in 1..Len(trace) : trace[i] = Phase("zig", FALSE)) =>
          /\ pc = "raised"
          /\ "artifact copied" \notin effects
          /\ "package files copied" \notin effects
          /\ archive = << >>
    /\ archive # << >> => /\ Len(trace) = Len(PhaseOrder)
                          /\ \A i \in 1..Len(trace) : trace[i].ok
    /\ "artifact copied" \in effects => Len(trace) >= 3 /\ trace[2].ok

\* C7's cases: a build whose four phases ran, and one that zig build ended.
C7_Witness ==
    /\ pc = "done"
    /\ Len(trace) = 4
    /\ "artifact copied" \in effects
    /\ archive # << >>

\* C10: the Tag line of the WHEEL file is the tag in the name of the wheel.
C10_TagMatchesFilename ==
    pc = "done" =>
        \A w \in {v \in wheel_dir : v.origin = "this"} :
            LET f == split(w.name, DASH)
                n == Len(f)
                triple == join(<<f[n - 2], f[n - 1], SubSeq(f[n], 1, Len(f[n]) - 2)>>, DASH)
            IN  \A i \in WheelEntries : archive[i].content[4] = <<"Tag: ">> \o triple

\* C2: without extensions wheel_filename is the name flit_core gives; with
\* extensions it is that name with its last three fields replaced by the
\* platform's interpreter, ABI and platform, the last ending in .whl, and its
\* name and version fields kept.
C2_WheelFilename ==
    (call = "wheel_filename" /\ ret # << >>) =>
        LET generic == super_wheel_filename(args)
            tag == args._platform.tag
            g == split(generic, DASH)
            f == split(ret[1], DASH)
            n == Len(g)
        IN  IF Len(args._extensions) = 0 THEN ret[1] = generic
            ELSE /\ Len(f) = n
                 /\ n >= 5
                 /\ SubSeq(f, 1, n - 3) = SubSeq(g, 1, n - 3)
                 /\ f[1] = args.metadata.name
                 /\ f[2] = args.metadata.version
                 /\ f[n - 2] = tag.interpreter
                 /\ f[n - 1] = tag.abi
                 /\ f[n] = tag.platform \o <<DOT, "whl">>

\* C2's cases: the function applied with two extensions, and with none.
C2_Witness ==
    /\ call = "wheel_filename"
    /\ ret # << >>
    /\ Len(args._extensions) = 2
    /\ args.metadata.supports_py2
    /\ ret[1] # super_wheel_filename(args)

\* C4: the identifier of the extension loaded from the declared name N is N
\* with its dots replaced by underscores, an underscore, and the number of
\* dots in N.
C4_LoadedVarname ==
    (call = "_load_extension" /\ ret # << >> /\ ret[1].raised = "none") =>
        ret[2] = replace(args.decl.name, DOT, UNDERSCORE) \o <<UNDERSCORE>>
                 \o str(count(args.decl.name, DOT))

\* C8: two extensions of different names have different identifiers.
C8_VarnameInjective ==
    (call = "varname" /\ ret # << >> /\ args[1] # args[2]) => ret[1] # ret[2]

\* C9: a run of _copy_artifacts that follows a successful run, the compiled
\* output unchanged in between, writes no target, and every target holds the
\* data of its compiled artifact.
C9_CopyIdempotent ==
    (pc = "copy" /\ copy_runs >= 2) =>
        /\ copy_written = << >>
        /\ \A i \in 1..Len(wb._extensions) :
              /\ target_path(wb, wb._extensions[i]) \in DOMAIN fs
              /\ fs[target_path(wb, wb._extensions[i])].data
                 = fs[compiled_path(wb, wb._extensions[i])].data

=============================================================================
